---- MODULE Spec2Model ----
(***************************************************************************)
(* Model of the datastore emulator supervisor (package emulator).          *)
(*                                                                         *)
(* The repository holds two builds of the package: src/emulator.go, which  *)
(* asks `gcloud ... env-init` for the launched instance's coordinates, and *)
(* src/unnamed/part_000, which launches on a fixed host and project.  The  *)
(* variable `variant` says which build runs; it never changes.             *)
(*                                                                         *)
(* Strings are sequences of tokens, so that the code's concatenations      *)
(* (e.Host+path, "http://"+defaultHost) are concatenations here and the    *)
(* empty string is <<>>.  Time is counted in milliseconds.                 *)
(***************************************************************************)
EXTENDS Integers, Sequences, FiniteSets, TLC

VARIABLES
    variant,      \* which build: "envInit" (emulator.go) or "fixedHost" (part_000)
    Host,         \* Emulator.Host
    ProjectID,    \* Emulator.ProjectID
    stopOnClose,  \* Emulator.stopOnClose
    env,          \* the process environment (os.Getenv / os.Setenv / os.Unsetenv)
    foreign,      \* an emulator instance this handle did not start: "up" or "down"
    proc,         \* the emulator process this handle spawned: "none", "starting", "up"
    pc,           \* position of the caller inside Start / Close
    op,           \* the public operation called last
    ret,          \* what the last completed operation returned
    calls,        \* number of public operations called so far
    pendingErr,   \* inside Start's cleanup: the error Start will return
    clock,        \* milliseconds since the current operation was called
    loopStart,    \* clock when confirmStartup was entered
    tickPending,  \* a tick is waiting in the ticker's channel t.C
    late,         \* polling iterations begun after the overall deadline
    spawned,      \* history: a Start of this handle has spawned a child process
    opSpawned,    \* history: the current/last Start spawned a child process
    confirmed,    \* history: a health request succeeded in the current/last Start
    launchedAs,   \* history: host and project the process of this Start reported
    closeLog,     \* history: the requests the current/last Close issued
    shutdownTo,   \* history: addresses that were sent POST /shutdown
    resetLog,     \* history: the requests the last operation issued as Reset
    published,    \* history: the current/last Start has called os.Setenv and no
                  \*          Close has unset the variables since
    probed,       \* history: the URLs the last operation requested in instanceIsPresent
    shutBefore    \* history: since the last Start, and before the operation in
                  \*          progress, a Close had its shutdown request answered with 200

vars == <<variant, Host, ProjectID, stopOnClose, env, foreign, proc, pc, op, ret,
          calls, pendingErr, clock, loopStart, tickPending, late, spawned,
          opSpawned, confirmed, launchedAs, closeLog, shutdownTo, resetLog,
          published, probed, shutBefore>>

handle == <<Host, ProjectID, stopOnClose>>
timing == <<clock, loopStart, tickPending, late>>
world == <<foreign, proc>>
history == <<spawned, opSpawned, confirmed, launchedAs, closeLog, shutdownTo>>
record == <<resetLog, published, probed, shutBefore>>

----------------------------------------------------------------------------
(* Bounds of the model. *)

\* public operations called in one behaviour
MaxCalls == 4
\* polling iterations select may still begin once the deadline has passed
MaxLate == 1

----------------------------------------------------------------------------
(* Package-level values. *)

\* emulator.go: timeout = 5 * time.Second
timeout_envInit == 5000
\* part_000: timeout = 30 * time.Second
timeout_fixedHost == 30000
\* pollingRate = 200 * time.Millisecond (both builds)
pollingRate == 200

timeout == IF variant = "envInit" THEN timeout_envInit ELSE timeout_fixedHost

resetEndpoint == <<"/reset">>
shutdownEndpoint == <<"/shutdown">>
healthcheckEndpoint == <<>>
defaultProject == <<"test">>
defaultHost == <<"localhost:8088">>

Variants == {"envInit", "fixedHost"}

\* The scheme prefix part_000 puts before defaultHost, and the one env-init reports.
scheme == <<"http://">>
\* Address gcloud assigns to the instance the env-init build launches.
assignedHost == <<"localhost:8081">>
assignedProject == <<"assigned-project">>
\* An instance somebody else keeps running, and how the user's environment names it.
foreignAddr == <<"foreign:8081">>
foreignProject == <<"foreign-project">>

\* Address the process spawned by this handle listens on.
launchedAddr == IF variant = "fixedHost" THEN defaultHost ELSE assignedHost

----------------------------------------------------------------------------
(* The HTTP side: which request is answered with 200. *)

Endpoints == {healthcheckEndpoint, resetEndpoint, shutdownEndpoint}

\* A URL http.NewRequest and the client accept: scheme, authority, endpoint path.
WellFormed(url) ==
    /\ Len(url) >= 2
    /\ SubSeq(url, 1, 1) = scheme
    /\ SubSeq(url, 3, Len(url)) \in Endpoints

Authority(url) == IF Len(url) >= 2 THEN SubSeq(url, 2, 2) ELSE <<>>

Up(addr) ==
    \/ addr = foreignAddr /\ foreign = "up"
    \/ addr = launchedAddr /\ proc = "up"

\* request returns nil exactly when the URL e.Host+path is well formed and the
\* instance at its authority answers 200 within the per-request timeout.
Answers(url) == WellFormed(url) /\ Up(Authority(url))

request(path) == Answers(Host \o path)

\* Mutant of isHealthy: the outcome of the health request is ignored.
isHealthy_always == TRUE

isHealthy == request(healthcheckEndpoint)

\* How long a command or a request may take.  A request is cut off by its
\* per-request timeout; one whose URL the client rejects fails at once.
Durations == {0, pollingRate}
Took(url) == IF WellFormed(url) THEN Durations ELSE {0}

----------------------------------------------------------------------------
(* The output of `gcloud beta emulators datastore env-init`: a sequence of  *)
(* lines, a line the sequence of its space-separated words, a word the      *)
(* sequence of its "="-separated fields, a field a string.                  *)

Line(key, value) == << <<"export">>, <<key, value>> >>

OutFull ==
    << Line(<<"DATASTORE_EMULATOR_HOST">>, assignedHost),
       Line(<<"DATASTORE_HOST">>, scheme \o assignedHost),
       Line(<<"DATASTORE_PROJECT_ID">>, assignedProject) >>
OutNoProject ==
    << Line(<<"DATASTORE_EMULATOR_HOST">>, assignedHost),
       Line(<<"DATASTORE_HOST">>, scheme \o assignedHost) >>
OutNoHost ==
    << Line(<<"DATASTORE_EMULATOR_HOST">>, assignedHost),
       Line(<<"DATASTORE_PROJECT_ID">>, assignedProject) >>
\* a line without a space, and a line whose second word holds no "="
OutNoSpace == << << << <<"DATASTORE_HOST">>, scheme \o assignedHost >> >> >>
OutNoEquals == << << <<"export">>, << <<"DATASTORE_HOST">> >> >> >>

InitOutputs == {OutFull, OutNoProject, OutNoHost, OutNoSpace, OutNoEquals, <<>>}

\* strings.Split(line, " ")[1] and e[1] index out of range: the scan loop panics.
Panics(out) ==
    \E i \in 1..Len(out) : Len(out[i]) < 2 \/ Len(out[i][2]) < 2

\* env[key] after the scan loop: the value of the last line assigning key, "" if none.
RECURSIVE Lookup(_, _)
Lookup(out, key) ==
    IF out = <<>> THEN <<>>
    ELSE LET last == out[Len(out)]
         IN  IF last[2][1] = key THEN last[2][2]
             ELSE Lookup(SubSeq(out, 1, Len(out) - 1), key)

----------------------------------------------------------------------------
(* Init: a fresh handle (e := &Emulator{}) in a process whose environment   *)
(* the user either left empty, or set for an instance kept running by hand, *)
(* fully or only in part.                                                    *)

NoLaunch == [host |-> <<>>, project |-> <<>>]

UserEnvs ==
    { [DATASTORE_HOST |-> <<>>, DATASTORE_EMULATOR_HOST |-> <<>>,
       DATASTORE_PROJECT_ID |-> <<>>],
      [DATASTORE_HOST |-> scheme \o foreignAddr, DATASTORE_EMULATOR_HOST |-> foreignAddr,
       DATASTORE_PROJECT_ID |-> foreignProject],
      [DATASTORE_HOST |-> scheme \o foreignAddr, DATASTORE_EMULATOR_HOST |-> foreignAddr,
       DATASTORE_PROJECT_ID |-> <<>>] }

Init ==
    /\ variant \in Variants
    /\ Host = <<>>
    /\ ProjectID = <<>>
    /\ stopOnClose = FALSE
    /\ env \in UserEnvs
    /\ foreign \in {"up", "down"}
    /\ proc = "none"
    /\ pc = "idle"
    /\ op = "none"
    /\ ret = "none"
    /\ calls = 0
    /\ pendingErr = "none"
    /\ clock = 0
    /\ loopStart = 0
    /\ tickPending = FALSE
    /\ late = 0
    /\ spawned = FALSE
    /\ opSpawned = FALSE
    /\ confirmed = FALSE
    /\ launchedAs = NoLaunch
    /\ closeLog = <<>>
    /\ shutdownTo = {}
    /\ resetLog = <<>>
    /\ published = FALSE
    /\ probed = <<>>
    /\ shutBefore = FALSE

----------------------------------------------------------------------------
(* Helpers shared by the operations. *)

\* A public method is called by the (single, sequential) caller.
Call(name) ==
    /\ pc = "idle"
    /\ calls < MaxCalls
    /\ calls' = calls + 1
    /\ op' = name

\* The operation in progress returns r to its caller.
Return(r) ==
    /\ pc' = "idle"
    /\ ret' = r

\* The health probe of instanceIsPresent: emulator.go asks e.isHealthy(), which
\* requests e.Host; part_000 asks e.request(host, GET), which requests e.Host+host.
discoveryURL ==
    Host \o (IF variant = "envInit" THEN healthcheckEndpoint ELSE env.DATASTORE_HOST)

discoveryProbe == Answers(discoveryURL)

instanceIsPresent ==
    /\ env.DATASTORE_HOST # <<>>
    /\ env.DATASTORE_PROJECT_ID # <<>>
    /\ discoveryProbe

\* Mutant of CloseOwned: the guard is missing.
CloseOwned_always == TRUE

\* Close's guard: `if !e.stopOnClose { return nil }`.
CloseOwned == stopOnClose

\* Mutant of ClosedEnv: only the host variable is unset.
ClosedEnv_hostOnly == [env EXCEPT !.DATASTORE_EMULATOR_HOST = <<>>]

\* The environment after Close's two os.Unsetenv calls.
ClosedEnv ==
    [env EXCEPT !.DATASTORE_EMULATOR_HOST = <<>>, !.DATASTORE_PROJECT_ID = <<>>]

\* Mutant of Outcome: an error of the cleanup Close replaces Start's error.
Outcome_closeErr(perr, r) == IF r # "ok" THEN r ELSE perr

\* What Close returns to its caller, and what Start returns when the Close was
\* its cleanup (`_ = e.Close(); return err`).

Outcome(perr, r) == IF perr = "none" THEN r ELSE perr

\* The operation that returned last was a Close whose shutdown request was
\* answered with 200.
ShutByLastClose == op = "Close" /\ Len(closeLog) = 2 /\ closeLog[2].ok

\* Close up to its first request: the guard and the unsetting.
CloseBegin(perr) ==
    /\ closeLog' = <<>>
    /\ IF ~CloseOwned
       THEN /\ Return(Outcome(perr, "ok"))
            /\ UNCHANGED <<env, published>>
       ELSE /\ env' = ClosedEnv
            /\ published' = FALSE
            /\ pc' = "close_health"
            /\ UNCHANGED ret

\* confirmStartup is entered: the deadline and the ticker start now.
EnterConfirm(now) ==
    /\ pc' = "poll"
    /\ loopStart' = now
    /\ tickPending' = FALSE
    /\ late' = 0

----------------------------------------------------------------------------
(* Start *)

\* Start up to the spawn: instanceIsPresent, then `e.stopOnClose = true`.
Start ==
    /\ Call("Start")
    /\ \E d \in Took(discoveryURL) :
         clock' = IF env.DATASTORE_HOST # <<>> /\ env.DATASTORE_PROJECT_ID # <<>>
                  THEN d ELSE 0
    /\ pendingErr' = "none"
    /\ opSpawned' = FALSE
    /\ confirmed' = FALSE
    /\ launchedAs' = NoLaunch
    /\ IF instanceIsPresent
       THEN /\ Host' = env.DATASTORE_HOST
            /\ ProjectID' = env.DATASTORE_PROJECT_ID
            /\ Return("ok")
            /\ UNCHANGED stopOnClose
       ELSE /\ stopOnClose' = TRUE
            /\ pc' = "spawn"
            /\ ret' = "running"
            /\ UNCHANGED <<Host, ProjectID>>
    /\ probed' = IF env.DATASTORE_HOST # <<>> /\ env.DATASTORE_PROJECT_ID # <<>>
                 THEN <<discoveryURL>> ELSE <<>>
    /\ published' = FALSE
    /\ shutBefore' = FALSE
    /\ resetLog' = <<>>
    /\ UNCHANGED <<variant, env, world, loopStart, tickPending, late, spawned,
                   closeLog, shutdownTo>>

\* command("start", ...).Start() fails: `return err`.
Start_spawnFails ==
    /\ pc = "spawn"
    /\ Return("err_launch")
    /\ UNCHANGED record
    /\ UNCHANGED <<variant, handle, env, world, op, calls, pendingErr, timing, history>>

\* The process a successful command.Start() leaves behind.  A second emulator
\* cannot bind the address of one that is still running, and exits.
Spawned == IF proc = "none" THEN "starting" ELSE proc

\* emulator.go: the process is spawned; initEnv is next.
Start_spawn_envInit ==
    /\ pc = "spawn"
    /\ variant = "envInit"
    /\ proc' = Spawned
    /\ spawned' = TRUE
    /\ opSpawned' = TRUE
    /\ pc' = "initEnv"
    /\ UNCHANGED record
    /\ UNCHANGED <<variant, handle, env, foreign, op, ret, calls, pendingErr, timing,
                   confirmed, launchedAs, closeLog, shutdownTo>>

\* part_000: the process is spawned with --host-port and --project; Host and
\* ProjectID are set from the same defaults and confirmStartup is entered.
Start_spawn_fixedHost ==
    /\ pc = "spawn"
    /\ variant = "fixedHost"
    /\ proc' = Spawned
    /\ spawned' = TRUE
    /\ opSpawned' = TRUE
    /\ launchedAs' = [host |-> scheme \o defaultHost, project |-> defaultProject]
    /\ Host' = scheme \o defaultHost
    /\ ProjectID' = defaultProject
    /\ EnterConfirm(clock)
    /\ UNCHANGED record
    /\ UNCHANGED <<variant, stopOnClose, env, foreign, op, ret, calls, pendingErr,
                   clock, confirmed, closeLog, shutdownTo>>

\* emulator.go initEnv: cmd.Run() fails; Start closes and returns the error.
initEnv_runFails ==
    /\ pc = "initEnv"
    /\ \E d \in Durations : clock' = clock + d
    /\ pendingErr' = "err_init"
    /\ CloseBegin("err_init")
    /\ UNCHANGED <<resetLog, probed, shutBefore>>
    /\ UNCHANGED <<variant, handle, world, op, calls, loopStart, tickPending, late,
                   spawned, opSpawned, confirmed, launchedAs, shutdownTo>>

\* emulator.go initEnv: cmd.Run() waits for `gcloud ... env-init` to exit, with
\* no context and no timeout; a command that never exits leaves Start waiting.
initEnv_hangs ==
    /\ pc = "initEnv"
    /\ pc' = "blocked"
    /\ UNCHANGED record
    /\ UNCHANGED <<variant, handle, env, world, op, ret, calls, pendingErr, timing,
                   history>>

\* emulator.go initEnv: the output is scanned into env; a line of the wrong
\* shape panics, otherwise Host, ProjectID and the two variables are set from
\* the map (a missing key reads as "") and confirmStartup is entered.
initEnv ==
    /\ pc = "initEnv"
    /\ \E d \in Durations, out \in InitOutputs :
         /\ clock' = clock + d
         /\ IF Panics(out)
            THEN /\ pc' = "panic"
                 /\ UNCHANGED <<handle, env, loopStart, tickPending, late, launchedAs>>
            ELSE /\ Host' = Lookup(out, <<"DATASTORE_HOST">>)
                 /\ ProjectID' = Lookup(out, <<"DATASTORE_PROJECT_ID">>)
                 /\ env' = [env EXCEPT
                        !.DATASTORE_EMULATOR_HOST = Lookup(out, <<"DATASTORE_EMULATOR_HOST">>),
                        !.DATASTORE_PROJECT_ID = Lookup(out, <<"DATASTORE_PROJECT_ID">>)]
                 /\ launchedAs' = [host |-> Lookup(out, <<"DATASTORE_HOST">>),
                                   project |-> Lookup(out, <<"DATASTORE_PROJECT_ID">>)]
                 /\ EnterConfirm(clock + d)
                 /\ UNCHANGED stopOnClose
    /\ published' = (pc' = "poll")
    /\ UNCHANGED <<resetLog, probed, shutBefore>>
    /\ UNCHANGED <<variant, world, op, ret, calls, pendingErr, spawned, opSpawned,
                   confirmed, closeLog, shutdownTo>>

----------------------------------------------------------------------------
(* confirmStartup: the select loop over t.C and ctx.Done(). *)

\* Mutant of DeadlinePassed: the context is made with pollingRate for timeout.
DeadlinePassed_pollingRate == clock - loopStart >= pollingRate

\* ctx.Done() is ready: the overall timeout has elapsed since the loop began.
DeadlinePassed == clock - loopStart >= timeout

\* Neither channel is ready: the loop blocks until the next tick.
confirmStartup_wait ==
    /\ pc = "poll"
    /\ ~tickPending
    /\ ~DeadlinePassed
    /\ clock' = clock + pollingRate
    /\ tickPending' = TRUE
    /\ UNCHANGED record
    /\ UNCHANGED <<variant, handle, env, world, pc, op, ret, calls, pendingErr,
                   loopStart, late, history>>

\* What Start does once confirmStartup returned nil: emulator.go returns,
\* part_000 publishes the two variables first.
Published ==
    IF variant = "fixedHost"
    THEN [env EXCEPT !.DATASTORE_EMULATOR_HOST = defaultHost,
                     !.DATASTORE_PROJECT_ID = defaultProject]
    ELSE env

\* case <-t.C: one health request.  A request that takes the whole polling
\* interval finds the next tick waiting when it returns.  With both channels
\* ready select may take either case.
confirmStartup_tick ==
    /\ pc = "poll"
    /\ tickPending
    /\ DeadlinePassed => late < MaxLate
    /\ late' = IF DeadlinePassed THEN late + 1 ELSE late
    /\ \E d \in Took(Host \o healthcheckEndpoint) :
         /\ clock' = clock + d
         /\ tickPending' = (d = pollingRate)
    /\ IF isHealthy
       THEN /\ confirmed' = TRUE
            /\ env' = Published
            /\ Return("ok")
       ELSE /\ UNCHANGED <<confirmed, env, pc, ret>>
    /\ published' = (published \/ (variant = "fixedHost" /\ isHealthy))
    /\ UNCHANGED <<resetLog, probed, shutBefore>>
    /\ UNCHANGED <<variant, handle, world, op, calls, pendingErr, loopStart, spawned,
                   opSpawned, launchedAs, closeLog, shutdownTo>>

\* case <-ctx.Done(): confirmStartup returns ctx.Err(); Start closes and
\* returns the error.
confirmStartup_timeout ==
    /\ pc = "poll"
    /\ DeadlinePassed
    /\ pendingErr' = "err_timeout"
    /\ CloseBegin("err_timeout")
    /\ UNCHANGED <<resetLog, probed, shutBefore>>
    /\ UNCHANGED <<variant, handle, world, op, calls, timing, spawned, opSpawned,
                   confirmed, launchedAs, shutdownTo>>

----------------------------------------------------------------------------
(* Close and Reset *)

\* Close is called by the user.
Close ==
    /\ Call("Close")
    /\ clock' = 0
    /\ pendingErr' = "none"
    /\ CloseBegin("none")
    /\ shutBefore' = (shutBefore \/ ShutByLastClose)
    /\ resetLog' = <<>>
    /\ probed' = <<>>
    /\ UNCHANGED <<variant, handle, world, loopStart, tickPending, late, spawned,
                   opSpawned, confirmed, launchedAs, shutdownTo>>

Logged(method, path, ok) == [method |-> method, url |-> Host \o path, ok |-> ok]

\* Mutant of Close_unreachable: an unreachable instance is reported as an error.
Close_unreachable_err == "err_request"

\* What Close returns when the final health check failed: `return nil`.
Close_unreachable == "ok"

\* `if e.isHealthy()`: the final health check.
Close_isHealthy ==
    /\ pc = "close_health"
    /\ \E d \in Took(Host \o healthcheckEndpoint) : clock' = clock + d
    /\ closeLog' = Append(closeLog, Logged("GET", healthcheckEndpoint, isHealthy))
    /\ IF isHealthy
       THEN /\ pc' = "close_shutdown"
            /\ UNCHANGED ret
       ELSE Return(Outcome(pendingErr, Close_unreachable))
    /\ UNCHANGED record
    /\ UNCHANGED <<variant, handle, env, world, op, calls, pendingErr, loopStart,
                   tickPending, late, spawned, opSpawned, confirmed, launchedAs,
                   shutdownTo>>

\* The instance that answers POST /shutdown with 200 exits.
ShutDown(addr) ==
    /\ foreign' = IF addr = foreignAddr THEN "down" ELSE foreign
    /\ proc' = IF addr = launchedAddr THEN "none" ELSE proc

\* Mutant of shutdownURL: the request goes to the host the environment names.
shutdownURL_fromEnv == env.DATASTORE_HOST \o shutdownEndpoint

\* The URL of Close's shutdown request: e.Host+shutdownEndpoint.
shutdownURL == Host \o shutdownEndpoint

\* `return e.request(shutdownEndpoint, http.MethodPost)`.
Close_shutdown ==
    /\ pc = "close_shutdown"
    /\ \E d \in Took(shutdownURL) : clock' = clock + d
    /\ closeLog' = Append(closeLog, [method |-> "POST", url |-> shutdownURL,
                                     ok |-> Answers(shutdownURL)])
    /\ shutdownTo' = shutdownTo \cup {Authority(shutdownURL)}
    /\ IF Answers(shutdownURL)
       THEN /\ ShutDown(Authority(shutdownURL))
            /\ Return(Outcome(pendingErr, "ok"))
       ELSE /\ UNCHANGED world
            /\ Return(Outcome(pendingErr, "err_request"))
    /\ UNCHANGED record
    /\ UNCHANGED <<variant, handle, env, op, calls, pendingErr, loopStart, tickPending,
                   late, spawned, opSpawned, confirmed, launchedAs>>

\* Mutant of resetURL: Reset posts to the shutdown endpoint.
resetURL_shutdown == Host \o shutdownEndpoint

\* The URL of Reset's request: e.Host+resetEndpoint.
resetURL == Host \o resetEndpoint

\* Reset: `return e.request(resetEndpoint, http.MethodPost)`, one POST /reset
\* whose error, if any, goes to the caller.
Reset ==
    /\ Call("Reset")
    /\ \E d \in Took(resetURL) : clock' = d
    /\ resetLog' = << [method |-> "POST", url |-> resetURL, ok |-> Answers(resetURL)] >>
    /\ Return(IF Answers(resetURL) THEN "ok" ELSE "err_request")
    /\ shutBefore' = (shutBefore \/ ShutByLastClose)
    /\ probed' = <<>>
    /\ UNCHANGED published
    /\ UNCHANGED <<variant, handle, env, world, pendingErr, loopStart, tickPending,
                   late, history>>

----------------------------------------------------------------------------
(* What the rest of the machine does meanwhile. *)

\* `e := &Emulator{}`: the program goes on with a fresh handle (as New does
\* before it calls Start); the environment and the processes stay as they are.
NewHandle ==
    /\ pc = "idle"
    /\ handle # <<<<>>, <<>>, FALSE>>
    /\ Host' = <<>>
    /\ ProjectID' = <<>>
    /\ stopOnClose' = FALSE
    /\ op' = "none"
    /\ ret' = "none"
    /\ pendingErr' = "none"
    /\ spawned' = FALSE
    /\ opSpawned' = FALSE
    /\ confirmed' = FALSE
    /\ launchedAs' = NoLaunch
    /\ closeLog' = <<>>
    /\ shutdownTo' = {}
    /\ resetLog' = <<>>
    /\ probed' = <<>>
    /\ shutBefore' = FALSE
    /\ UNCHANGED <<variant, env, world, pc, calls, timing, published>>

\* The instance kept by somebody else is started or stopped by its keeper.
ForeignChanges ==
    /\ pc # "panic"
    /\ foreign' = IF foreign = "up" THEN "down" ELSE "up"
    /\ UNCHANGED record
    /\ UNCHANGED <<variant, handle, env, proc, pc, op, ret, calls, pendingErr, timing,
                   history>>

\* The spawned emulator finishes starting and begins to answer.
ProcessReady ==
    /\ pc # "panic"
    /\ proc = "starting"
    /\ proc' = "up"
    /\ UNCHANGED record
    /\ UNCHANGED <<variant, handle, env, foreign, pc, op, ret, calls, pendingErr,
                   timing, history>>

\* The spawned emulator exits by itself (it crashes, or is killed from outside).
ProcessExits ==
    /\ pc # "panic"
    /\ proc # "none"
    /\ proc' = "none"
    /\ UNCHANGED record
    /\ UNCHANGED <<variant, handle, env, foreign, pc, op, ret, calls, pendingErr,
                   timing, history>>

Next ==
    \/ Start
    \/ Start_spawnFails
    \/ Start_spawn_envInit
    \/ Start_spawn_fixedHost
    \/ initEnv_runFails
    \/ initEnv_hangs
    \/ initEnv
    \/ confirmStartup_wait
    \/ confirmStartup_tick
    \/ confirmStartup_timeout
    \/ Close
    \/ Close_isHealthy
    \/ Close_shutdown
    \/ Reset
    \/ NewHandle
    \/ ForeignChanges
    \/ ProcessReady
    \/ ProcessExits

Spec == Init /\ [][Next]_vars

----------------------------------------------------------------------------
(* Properties *)

\* The two variables this package writes and clears.
EnvCleared ==
    /\ env.DATASTORE_EMULATOR_HOST = <<>>
    /\ env.DATASTORE_PROJECT_ID = <<>>

\* A public operation is being called in this step.
Calling(name) == pc = "idle" /\ calls' = calls + 1 /\ op' = name

\* Start has returned / Close has returned (as the last public operation).
StartReturned == pc = "idle" /\ op = "Start"
CloseReturned == pc = "idle" /\ op = "Close"
\* The last thing the handle did was a Close that got past its guard: a Close
\* the user called, or the cleanup Close of a failed Start.
ClosedLast == pc = "idle" /\ (op = "Close" \/ (op = "Start" /\ pendingErr # "none"))

\* C1 (as claimed): a Start called while DATASTORE_HOST and DATASTORE_PROJECT_ID
\* are both set and the instance at that host answers the health GET with 200
\* spawns nothing, returns success, takes Host and ProjectID from the
\* environment and leaves the handle not owned.
C1_AdoptionPrecedence ==
    [][ ( /\ Calling("Start")
          /\ env.DATASTORE_HOST # <<>>
          /\ env.DATASTORE_PROJECT_ID # <<>>
          /\ Answers(env.DATASTORE_HOST \o <<>>) )
        => ( /\ pc' = "idle"
             /\ ret' = "ok"
             /\ ~opSpawned'
             /\ Host' = env.DATASTORE_HOST
             /\ ProjectID' = env.DATASTORE_PROJECT_ID
             /\ ~stopOnClose' ) ]_vars

\* C2 (as claimed): POST /shutdown is only ever sent to the instance whose
\* process this handle spawned, never to an instance it adopted.
C2_ShutdownOnlyOwnProcess ==
    /\ shutdownTo \subseteq {launchedAddr}
    /\ shutdownTo # {} => spawned

\* C3: Close on a handle that is not owned returns success in one step, issues
\* no request, and leaves the environment and the instances as they were.
C3_NonOwnedCloseInert ==
    [][ (Calling("Close") /\ ~stopOnClose)
        => ( /\ pc' = "idle"
             /\ ret' = "ok"
             /\ closeLog' = <<>>
             /\ env' = env
             /\ world' = world
             /\ shutdownTo' = shutdownTo ) ]_vars

\* C3 witness: an adopted, not owned handle was closed while the adopted
\* instance was up and the environment named it; both are still so.
C3_Witness ==
    /\ CloseReturned
    /\ ~stopOnClose
    /\ ret = "ok"
    /\ Host = scheme \o foreignAddr
    /\ foreign = "up"
    /\ env.DATASTORE_PROJECT_ID = foreignProject
    /\ env.DATASTORE_EMULATOR_HOST = foreignAddr

\* No health request of the last Start succeeded, its cleanup's included.
NeverHealthy ==
    /\ ~confirmed
    /\ \A i \in 1..Len(closeLog) : closeLog[i].method = "GET" => ~closeLog[i].ok

\* C4 (as claimed): when Start spawned a process, no health request succeeded
\* and Start returned the timeout error, the spawned process is gone.
C4_TimeoutCleanup ==
    (StartReturned /\ ret = "err_timeout" /\ opSpawned /\ NeverHealthy)
        => proc = "none"

\* C5 (as claimed): whenever no operation is in progress, the handle is owned
\* exactly if a Start of it spawned a child process.
C5_OwnedIffSpawned ==
    pc = "idle" => (stopOnClose <=> spawned)

\* After a Close that got past its guard and whose final health check succeeded,
\* exactly one more request was issued: POST Host/shutdown.
C6_shutdownSent ==
    (ClosedLast /\ stopOnClose /\ Len(closeLog) >= 1 /\ closeLog[1].ok)
        => /\ Len(closeLog) = 2
           /\ closeLog[2].method = "POST"
           /\ closeLog[2].url = Host \o <<"/shutdown">>
\* The step in which the shutdown request is answered with 200.
C6_answered ==
    (pc = "close_shutdown" /\ pc' = "idle" /\ closeLog'[2].ok)
        => ~Answers(Host \o <<>>)'

\* C6: a Close on an owned handle whose final health check succeeded issues
\* exactly one POST /shutdown, to the handle's Host; and the step in which that
\* request is answered with 200 leaves the instance at Host unreachable.
C6_OwnedCloseTerminates == []C6_shutdownSent /\ [][C6_answered]_vars

\* C6 witness: the user closed an owned handle whose launched instance was
\* healthy; the shutdown request was answered with 200 and the process is gone.
C6_Witness ==
    /\ CloseReturned
    /\ stopOnClose
    /\ spawned
    /\ Host = scheme \o launchedAddr
    /\ Len(closeLog) = 2
    /\ closeLog[2].ok
    /\ proc = "none"

\* C7: once Close is past its guard both variables are unset: while the final
\* health check and the shutdown request are still to come, and when it has
\* returned, whatever the requests' outcome.
C7_UnsetFirst ==
    /\ pc \in {"close_health", "close_shutdown"} => EnvCleared
    /\ (ClosedLast /\ stopOnClose) => EnvCleared

\* C7 witness: a launched and confirmed instance was closed by the user and the
\* shutdown request failed; the variables are unset all the same.
C7_Witness ==
    /\ CloseReturned
    /\ stopOnClose
    /\ confirmed
    /\ ret = "err_request"
    /\ EnvCleared

\* C8 (as claimed): when Start returns success after spawning a process, Host
\* and ProjectID are non-empty, they are what the launched instance reported
\* or was started with, and a health request against Host has succeeded.
C8_LaunchAndConfirm ==
    (StartReturned /\ ret = "ok" /\ opSpawned)
        => /\ Host # <<>>
           /\ ProjectID # <<>>
           /\ Host = launchedAs.host
           /\ ProjectID = launchedAs.project
           /\ confirmed

\* C9 (as claimed): Start's timeout error comes no earlier than one polling
\* interval and no later than overall timeout + one polling interval after Start
\* was called.
C9_TimeoutWindow ==
    (StartReturned /\ ret = "err_timeout" /\ NeverHealthy)
        => /\ clock >= pollingRate
           /\ clock <= timeout + pollingRate

\* C9 (amended): Start's timeout error comes no earlier than the overall timeout
\* after Start was called.
C9_TimeoutNotEarly ==
    (StartReturned /\ ret = "err_timeout" /\ NeverHealthy) => clock >= timeout

\* C9 witness: Start returned the timeout error later than overall timeout + one
\* polling interval after it was called.
C9_Witness ==
    /\ StartReturned
    /\ ret = "err_timeout"
    /\ NeverHealthy
    /\ clock > timeout + pollingRate

\* C10: a Close called by the user returns an error exactly if the handle is
\* owned, the final health check succeeded and the shutdown request failed; if
\* the final health check failed no further request was issued and Close
\* returned success.
C10_CloseError ==
    CloseReturned
        => /\ (ret # "ok") <=> ( /\ stopOnClose
                                 /\ Len(closeLog) = 2
                                 /\ closeLog[1].ok
                                 /\ ~closeLog[2].ok )
           /\ (Len(closeLog) >= 1 /\ ~closeLog[1].ok)
                  => (Len(closeLog) = 1 /\ ret = "ok")

\* C10 witness: the final health check of an owned handle's Close failed, and
\* Close returned success without a shutdown request.
C10_Witness ==
    /\ CloseReturned
    /\ stopOnClose
    /\ spawned
    /\ Len(closeLog) = 1
    /\ ~closeLog[1].ok
    /\ ret = "ok"

\* C11: every call of Reset issues exactly one request, POST Host/reset, returns
\* success exactly if that request is answered with 200 and the request's error
\* otherwise, and changes neither the handle's fields nor the environment.
C11_ResetSingleRequest ==
    [][ Calling("Reset")
        => ( /\ pc' = "idle"
             /\ resetLog' = << [method |-> "POST", url |-> Host \o <<"/reset">>,
                                ok |-> Answers(Host \o <<"/reset">>)] >>
             /\ ret' = (IF Answers(Host \o <<"/reset">>) THEN "ok" ELSE "err_request")
             /\ handle' = handle
             /\ env' = env ) ]_vars

\* C11 witness: Reset was called on a handle whose instance did not answer; its
\* single request failed and the failure was returned.
C11_Witness ==
    /\ pc = "idle"
    /\ op = "Reset"
    /\ Len(resetLog) = 1
    /\ WellFormed(resetLog[1].url)
    /\ ~resetLog[1].ok
    /\ ret = "err_request"

\* C12 (as claimed): the confirmation loop ends in Confirmed only by a health
\* request that succeeded on a polling tick, and once the overall timeout has
\* elapsed without a success the loop does not end in Confirmed.
C12_ConfirmationOutcome ==
    [][ /\ (pc = "poll" /\ pc' = "idle" /\ ret' = "ok")
            => (tickPending /\ Answers(Host \o healthcheckEndpoint))
        /\ (pc = "poll" /\ clock - loopStart >= timeout)
            => ~(pc' = "idle" /\ ret' = "ok") ]_vars

\* C12 (amended): the loop ends in Confirmed only by a health request that
\* succeeded on a polling tick, it ends in TimedOut only once the overall
\* timeout has elapsed, and it ends in no other way; a tick taken by select
\* after the deadline still issues a health request, which may confirm.
C12_ConfirmationAmended ==
    [][ (pc = "poll" /\ pc' # "poll")
        => \/ /\ tickPending
              /\ Answers(Host \o healthcheckEndpoint)
              /\ confirmed'
              /\ pc' = "idle"
              /\ ret' = "ok"
           \/ /\ clock - loopStart >= timeout
              /\ pendingErr' = "err_timeout"
              /\ ~confirmed'
              /\ pc' # "idle" => pc' = "close_health" ]_vars

\* C12 witness: Start was confirmed by a health request issued on a tick that
\* select took after the overall deadline had passed.
C12_Witness ==
    /\ StartReturned
    /\ ret = "ok"
    /\ confirmed
    /\ late = 1
    /\ clock - loopStart >= timeout

\* C14 (as claimed): while this system's Start has the host and project
\* variables written and not yet cleared, a health request against the launched
\* instance has succeeded.
C14_PublishAfterConfirm ==
    (published /\ env.DATASTORE_EMULATOR_HOST # <<>>) => confirmed

\* C13 (as claimed): whatever the emulator and its launcher commands do, a call
\* of Start returns; stated on finite runs, a Start in progress is never left
\* waiting for something that will not happen.
C13_StartTerminates == op = "Start" => pc # "blocked"

\* C15 (as claimed): a Start called with the host variable or the project
\* variable absent issues no health probe and goes on to launch; with both
\* present its one probe goes to the host read from the environment, and when
\* that host does not answer Start adopts nothing and goes on to launch.
C15_Discovery ==
    [][ Calling("Start")
        => IF env.DATASTORE_HOST = <<>> \/ env.DATASTORE_PROJECT_ID = <<>>
           THEN probed' = <<>> /\ pc' = "spawn"
           ELSE /\ probed' = << env.DATASTORE_HOST >>
                /\ ~Answers(env.DATASTORE_HOST)
                     => (pc' = "spawn" /\ Host' = Host /\ ProjectID' = ProjectID) ]_vars

\* C16 (as claimed): initialization output that does not parse into the
\* expected keys makes Start fail with an error; Start neither crashes on it
\* nor enters the polling loop with an empty Host or ProjectID.
C16_LaunchErrors ==
    /\ pc # "panic"
    /\ (op = "Start" /\ pc = "poll") => (Host # <<>> /\ ProjectID # <<>>)

\* C17 (as claimed): after a successful launching Start has written the host
\* and project variables, a Start on a fresh handle, called while the launched
\* instance is still up and not closed, finds the instance through those
\* variables: it adopts it, returns success and spawns nothing.
C17_PublishDiscoverRoundTrip ==
    [][ ( /\ Calling("Start")
          /\ handle = <<<<>>, <<>>, FALSE>>
          /\ published
          /\ env.DATASTORE_EMULATOR_HOST = launchedAddr
          /\ env.DATASTORE_PROJECT_ID # <<>>
          /\ env.DATASTORE_HOST = <<>>
          /\ proc = "up" )
        => ( /\ pc' = "idle"
             /\ ret' = "ok"
             /\ Authority(Host') = launchedAddr
             /\ ProjectID' = env.DATASTORE_PROJECT_ID
             /\ ~stopOnClose' ) ]_vars

\* C18: when Start returns after it spawned a process and then failed (the
\* initialisation command failed or the confirmation timed out), the host and
\* project variables are unset and the error returned is that initialisation or
\* confirmation error, whatever the cleanup Close returned.
C18_FailedStartUnpublished ==
    (StartReturned /\ opSpawned /\ pendingErr # "none")
        => /\ EnvCleared
           /\ ~published
           /\ ret = pendingErr
           /\ ret \in {"err_init", "err_timeout"}

\* C18 witness: Start timed out, its cleanup Close found the instance healthy
\* but the shutdown request failed; Start returned the timeout error with the
\* variables unset.
C18_Witness ==
    /\ StartReturned
    /\ opSpawned
    /\ ret = "err_timeout"
    /\ Len(closeLog) = 2
    /\ ~closeLog[2].ok
    /\ EnvCleared

====
